---- MODULE Spec2Model ----
(***************************************************************************)
(* Model of detector/helpers/detection_results.go (talisman): the          *)
(* DetectionResults collecting parameter, its accumulation API (Fail,      *)
(* Warn, Ignore), the summary counters, the queries built on them, the     *)
(* reports (Report, ReportWarnings and the rows of a file) and the         *)
(* workflow that suggests .talismanrc entries after a failed run.          *)
(*                                                                         *)
(* Go slices of commit identifiers are modelled as they are in Go: a       *)
(* slice is a header (backing array, length) and the arrays live in a      *)
(* heap, because Fail and Warn store the caller's slice header as it is    *)
(* and later append to it in place.                                        *)
(***************************************************************************)
EXTENDS Integers, Sequences, FiniteSets, TLC

\* ------------------------------------------------------------------ bounds

\* Runs explored: every run of up to MaxCalls calls with arguments from the
\* wide sets, and every run of up to MaxDeepCalls calls about one file and
\* one category (the deep sets).
MaxCalls == 2

MaxDeepCalls == 4

\* Runs with reports: up to MaxScanCalls calls of Fail, Warn and Ignore and
\* up to MaxReports calls of Report and ReportWarnings.
MaxScanCalls == 3

MaxReports == 1

\* The messages rendered have 150 - Radius to 150 + Radius characters.
Radius == 10

\* ------------------------------------------------------------------ inputs

\* gitrepo.FilePath values the detectors report on.
Paths == {"a.pem", "b.txt"}

\* A path no detector ever reports on (for the queries).
UnknownPath == "none.txt"

\* The three categories updateResultsSummary counts, and one it does not.
ReservedCategories == {"filecontent", "filesize", "filename"}

Categories == ReservedCategories \cup {"secrets"}

Messages == {"m1", "m2"}

\* severity.Severity values; severity.Low is the one the source names.
Low == "low"

Severities == {Low, "high"}

\* The arguments of the long runs: one file, one category, one severity.
DeepPaths == {"a.pem"}

DeepCategories == {"filecontent"}

DeepSeverities == {Low}

\* The messages of the short runs.
WideMessages == {"m1"}

\* runtime.GOOS
Platforms == {"linux", "windows"}

\* The findings of the runs with reports: category, message, severity. One
\* failure has a category HasFailures counts and a short message, the other
\* a category it does not count and a message of more than 150 bytes.
ScanFailures == {<<"filecontent", "secret key", "high">>,
                 <<"secrets", "151 letters", Low>>}

ScanWarnings == {<<"secrets", "151 letters", Low>>}

ScanIgnores == {"filesize"}

\* Where a rendered message has its two-byte character: nowhere, first, on
\* both sides of byte 75, on both sides of byte 147.
WidePositions == {0, 1, 75, 147}

\* ------------------------------------------------------------------ slices

\* The nil / zero-length slice: no backing array, len 0, cap 0.
NilSlice == [arr |-> 0, len |-> 0]

\* The zero value of a string, in the unused part of a backing array.
Zero == ""

\* Backing arrays the caller owns before the run starts. Array 1 was built
\* with spare capacity (len 1, cap 2), array 2 is full (len 1, cap 1).
CallerHeap == << <<"c1", Zero>>, <<"c2">> >>

\* The commits arguments the caller passes: nil, and one slice over each of
\* its arrays. The same slice may be passed to any number of calls.
CallerSlices == {NilSlice, [arr |-> 1, len |-> 1], [arr |-> 2, len |-> 1]}

\* The commits arguments of the short runs.
WideSlices == CallerSlices \ {NilSlice}

VARIABLES
    Results,    \* DetectionResults.Results: sequence of ResultsDetails
    Summary,    \* DetectionResults.Summary.Types: the five counters
    heap,       \* backing arrays of all []string slices, by array number
    last,       \* the last call: its name, its arguments and its result
    failed,     \* history of the Fail calls, per (path, category, message):
                \* how many, the concatenation of their commits arguments
                \* in call order, and the severity of the first one
    warned,     \* the same history of the Warn calls
    ignored,    \* history: number of Ignore calls per (path, category)
    calls,      \* history: number of calls of each operation
    report      \* the Report call in progress or just returned: its
                \* prompt context, where it stands, what it printed, asked,
                \* persisted and logged so far, and (history) the answers
                \* the prompt gave

vars == <<Results, Summary, heap, last, failed, warned, ignored, calls, report>>

\* No Report call is in progress and none has just returned.
NoReport == [pc |-> "Idle"]

\* No call yet.
NoCalls == [calls |-> 0, commits |-> <<>>, first |-> "none"]

\* The history of the key k in h; h holds the keys that were used.
Hist(h, k) == IF k \in DOMAIN h THEN h[k] ELSE NoCalls

\* The history h after one more call with the key k.
Record(h, k, content, sev) ==
    [x \in DOMAIN h \cup {k} |->
        IF x = k
        THEN [calls |-> Hist(h, k).calls + 1,
              commits |-> Hist(h, k).commits \o content,
              first |-> IF Hist(h, k).calls = 0 THEN sev ELSE Hist(h, k).first]
        ELSE h[x]]

\* Number of Ignore calls with the key k.
Ignored(k) == IF k \in DOMAIN ignored THEN ignored[k] ELSE 0

\* cap(s)
Cap(h, s) == IF s.arr = 0 THEN 0 ELSE Len(h[s.arr])

\* The elements of slice s: s[0:len(s)].
Content(h, s) == IF s.len = 0 THEN <<>> ELSE SubSeq(h[s.arr], 1, s.len)

Max(a, b) == IF a > b THEN a ELSE b

\* n zero values
RECURSIVE Zeros(_)
Zeros(n) == IF n <= 0 THEN <<>> ELSE <<Zero>> \o Zeros(n - 1)

\* Go's append(s, t...): with nothing to add s is returned; when the result
\* fits in cap(s) the elements are written into s's backing array in place;
\* otherwise a new array is allocated (capacity: the needed length, or twice
\* the old capacity when that is enough) and s's elements are copied to it.
AppendSlice(h, s, t) ==
    LET xs == Content(h, t)
        need == s.len + t.len
    IN  IF t.len = 0
        THEN [heap |-> h, slice |-> s]
        ELSE IF need <= Cap(h, s)
        THEN [heap |-> [h EXCEPT ![s.arr] =
                          [i \in 1..Len(@) |->
                             IF i > s.len /\ i <= need THEN xs[i - s.len] ELSE @[i]]],
              slice |-> [arr |-> s.arr, len |-> need]]
        ELSE LET newcap == Max(need, 2 * Cap(h, s))
             IN  [heap |-> Append(h, Content(h, s) \o xs \o Zeros(newcap - need)),
                  slice |-> [arr |-> Len(h) + 1, len |-> need]]

\* ------------------------------------------------------------------ types

\* A Details that does not keep the severity it is given.
Details_AlwaysLow(category, message, commits, severity) ==
    [Category |-> category, Message |-> message, Commits |-> commits,
     Severity |-> Low]

\* Details{category, message, commits, severity}
Details(category, message, commits, severity) ==
    [Category |-> category, Message |-> message, Commits |-> commits,
     Severity |-> severity]

\* ResultsDetails{filePath, failures, warnings, ignores}
ResultsDetails(filePath, failures, warnings, ignores) ==
    [Filename |-> filePath, FailureList |-> failures, WarningList |-> warnings,
     IgnoreList |-> ignores]

\* NewDetectionResults: all counters 0, no ledger.
Init ==
    /\ Results = <<>>
    /\ Summary = [Filecontent |-> 0, Filesize |-> 0, Filename |-> 0,
                  Warnings |-> 0, Ignores |-> 0]
    /\ heap = CallerHeap
    /\ last = [op |-> "NewDetectionResults"]
    /\ failed = [k \in {} |-> NoCalls]
    /\ warned = [k \in {} |-> NoCalls]
    /\ ignored = [k \in {} |-> 0]
    /\ calls = [Fail |-> 0, Warn |-> 0, Ignore |-> 0, GetFailures |-> 0,
                Report |-> 0]
    /\ report = NoReport

\* Number of calls made so far.
NumCalls == calls.Fail + calls.Warn + calls.Ignore + calls.GetFailures

\* ------------------------------------------------------------------ Fail

\* A switch whose default case counts too.
updateResultsSummary_CountsAny(s, category) ==
    CASE category = "filecontent" -> [s EXCEPT !.Filecontent = @ + 1]
      [] category = "filename" -> [s EXCEPT !.Filename = @ + 1]
      [] category = "filesize" -> [s EXCEPT !.Filesize = @ + 1]
      [] OTHER -> [s EXCEPT !.Filecontent = @ + 1]

\* A switch without the filename case.
updateResultsSummary_NoFilename(s, category) ==
    CASE category = "filecontent" -> [s EXCEPT !.Filecontent = @ + 1]
      [] category = "filesize" -> [s EXCEPT !.Filesize = @ + 1]
      [] OTHER -> s

\* A switch with the filename and filesize counters exchanged.
updateResultsSummary_Swapped(s, category) ==
    CASE category = "filecontent" -> [s EXCEPT !.Filecontent = @ + 1]
      [] category = "filename" -> [s EXCEPT !.Filesize = @ + 1]
      [] category = "filesize" -> [s EXCEPT !.Filename = @ + 1]
      [] OTHER -> s

\* The switch of updateResultsSummary.
updateResultsSummary(s, category) ==
    CASE category = "filecontent" -> [s EXCEPT !.Filecontent = @ + 1]
      [] category = "filename" -> [s EXCEPT !.Filename = @ + 1]
      [] category = "filesize" -> [s EXCEPT !.Filesize = @ + 1]
      [] OTHER -> s

\* An inner loop that merges and forgets to say that it did.
RECURSIVE FailDetailLoop_FlagNotSet(_, _, _, _, _, _, _)
FailDetailLoop_FlagNotSet(h, list, detailIndex, category, message, commits, present) ==
    IF detailIndex > Len(list)
    THEN [heap |-> h, list |-> list, present |-> present]
    ELSE IF list[detailIndex].Category = category /\ list[detailIndex].Message = message
    THEN LET a == AppendSlice(h, list[detailIndex].Commits, commits)
         IN  FailDetailLoop_FlagNotSet(a.heap,
                            [list EXCEPT ![detailIndex].Commits = a.slice],
                            detailIndex + 1, category, message, commits, present)
    ELSE FailDetailLoop_FlagNotSet(h, list, detailIndex + 1, category, message,
                                   commits, present)

\* Fail's inner loop over FailureList from detailIndex on: every entry with
\* the category and message gets commits appended to its Commits.
RECURSIVE FailDetailLoop(_, _, _, _, _, _, _)
FailDetailLoop(h, list, detailIndex, category, message, commits, present) ==
    IF detailIndex > Len(list)
    THEN [heap |-> h, list |-> list, present |-> present]
    ELSE IF list[detailIndex].Category = category /\ list[detailIndex].Message = message
    THEN LET a == AppendSlice(h, list[detailIndex].Commits, commits)
         IN  FailDetailLoop(a.heap, [list EXCEPT ![detailIndex].Commits = a.slice],
                            detailIndex + 1, category, message, commits, TRUE)
    ELSE FailDetailLoop(h, list, detailIndex + 1, category, message, commits, present)

\* Fail's outer loop over Results from resultIndex on.
RECURSIVE FailResultLoop(_, _, _, _, _, _, _, _, _)
FailResultLoop(h, results, resultIndex, filePath, category, message, commits, sev, present) ==
    IF resultIndex > Len(results)
    THEN [heap |-> h, results |-> results, present |-> present]
    ELSE IF results[resultIndex].Filename = filePath
    THEN LET d == FailDetailLoop(h, results[resultIndex].FailureList, 1,
                                 category, message, commits, FALSE)
             list == IF d.present
                     THEN d.list
                     ELSE Append(d.list, Details(category, message, commits, sev))
         IN  FailResultLoop(d.heap, [results EXCEPT ![resultIndex].FailureList = list],
                            resultIndex + 1, filePath, category, message, commits, sev, TRUE)
    ELSE FailResultLoop(h, results, resultIndex + 1, filePath, category, message,
                        commits, sev, present)

\* The state of Results and the heap after Fail's loop and its new-ledger branch.
FailResults(h, results, filePath, category, message, commits, sev) ==
    LET r == FailResultLoop(h, results, 1, filePath, category, message, commits, sev, FALSE)
    IN  [heap |-> r.heap,
         results |-> IF r.present
                     THEN r.results
                     ELSE Append(r.results,
                                 ResultsDetails(filePath,
                                     <<Details(category, message, commits, sev)>>,
                                     <<>>, <<>>))]

Fail(filePath, category, message, commits, sev) ==
    /\ LET r == FailResults(heap, Results, filePath, category, message, commits, sev)
       IN  /\ Results' = r.results
           /\ heap' = r.heap
    /\ Summary' = updateResultsSummary(Summary, category)
    /\ last' = [op |-> "Fail", filePath |-> filePath, category |-> category,
                message |-> message, commits |-> commits, severity |-> sev]
    /\ failed' = Record(failed, <<filePath, category, message>>,
                        Content(heap, commits), sev)
    /\ calls' = [calls EXCEPT !.Fail = @ + 1]
    /\ report' = NoReport
    /\ UNCHANGED <<warned, ignored>>

\* ------------------------------------------------------------------ Warn

\* An inner loop that replaces the commits of the entry instead of
\* appending to them.
RECURSIVE WarnDetailLoop_Replaces(_, _, _, _, _, _, _)
WarnDetailLoop_Replaces(h, list, detailIndex, category, message, commits, present) ==
    IF detailIndex > Len(list)
    THEN [heap |-> h, list |-> list, present |-> present]
    ELSE IF list[detailIndex].Category = category /\ list[detailIndex].Message = message
    THEN WarnDetailLoop_Replaces(h, [list EXCEPT ![detailIndex].Commits = commits],
                                 detailIndex + 1, category, message, commits, TRUE)
    ELSE WarnDetailLoop_Replaces(h, list, detailIndex + 1, category, message,
                                 commits, present)

\* Warn's inner loop over WarningList from detailIndex on.
RECURSIVE WarnDetailLoop(_, _, _, _, _, _, _)
WarnDetailLoop(h, list, detailIndex, category, message, commits, present) ==
    IF detailIndex > Len(list)
    THEN [heap |-> h, list |-> list, present |-> present]
    ELSE IF list[detailIndex].Category = category /\ list[detailIndex].Message = message
    THEN LET a == AppendSlice(h, list[detailIndex].Commits, commits)
         IN  WarnDetailLoop(a.heap, [list EXCEPT ![detailIndex].Commits = a.slice],
                            detailIndex + 1, category, message, commits, TRUE)
    ELSE WarnDetailLoop(h, list, detailIndex + 1, category, message, commits, present)

\* Warn's outer loop over Results from resultIndex on.
RECURSIVE WarnResultLoop(_, _, _, _, _, _, _, _, _)
WarnResultLoop(h, results, resultIndex, filePath, category, message, commits, sev, present) ==
    IF resultIndex > Len(results)
    THEN [heap |-> h, results |-> results, present |-> present]
    ELSE IF results[resultIndex].Filename = filePath
    THEN LET d == WarnDetailLoop(h, results[resultIndex].WarningList, 1,
                                 category, message, commits, FALSE)
             list == IF d.present
                     THEN d.list
                     ELSE Append(d.list, Details(category, message, commits, sev))
         IN  WarnResultLoop(d.heap, [results EXCEPT ![resultIndex].WarningList = list],
                            resultIndex + 1, filePath, category, message, commits, sev, TRUE)
    ELSE WarnResultLoop(h, results, resultIndex + 1, filePath, category, message,
                        commits, sev, present)

\* The state of Results and the heap after Warn's loop and its new-ledger branch.
WarnResults(h, results, filePath, category, message, commits, sev) ==
    LET r == WarnResultLoop(h, results, 1, filePath, category, message, commits, sev, FALSE)
    IN  [heap |-> r.heap,
         results |-> IF r.present
                     THEN r.results
                     ELSE Append(r.results,
                                 ResultsDetails(filePath, <<>>,
                                     <<Details(category, message, commits, sev)>>,
                                     <<>>))]

Warn(filePath, category, message, commits, sev) ==
    /\ LET r == WarnResults(heap, Results, filePath, category, message, commits, sev)
       IN  /\ Results' = r.results
           /\ heap' = r.heap
    /\ Summary' = [Summary EXCEPT !.Warnings = @ + 1]
    /\ last' = [op |-> "Warn", filePath |-> filePath, category |-> category,
                message |-> message, commits |-> commits, severity |-> sev]
    /\ warned' = Record(warned, <<filePath, category, message>>,
                        Content(heap, commits), sev)
    /\ calls' = [calls EXCEPT !.Warn = @ + 1]
    /\ report' = NoReport
    /\ UNCHANGED <<failed, ignored>>

\* ------------------------------------------------------------------ Ignore

\* An inner loop that compares the message, not the category.
IgnoreDetailLoop_ByMessage(list, category) ==
    \E detailIndex \in 1..Len(list) : list[detailIndex].Message = category

\* Ignore's inner loop: is there an IgnoreList entry with the category?
IgnoreDetailLoop(list, category) ==
    \E detailIndex \in 1..Len(list) : list[detailIndex].Category = category

\* Ignore's outer loop over Results from resultIndex on.
RECURSIVE IgnoreResultLoop(_, _, _, _, _)
IgnoreResultLoop(results, resultIndex, filePath, category, present) ==
    IF resultIndex > Len(results)
    THEN [results |-> results, present |-> present]
    ELSE IF results[resultIndex].Filename = filePath
    THEN LET old == results[resultIndex].IgnoreList
             list == IF IgnoreDetailLoop(old, category)
                     THEN old
                     ELSE Append(old, Details(category, "", NilSlice, Low))
         IN  IgnoreResultLoop([results EXCEPT ![resultIndex].IgnoreList = list],
                              resultIndex + 1, filePath, category, TRUE)
    ELSE IgnoreResultLoop(results, resultIndex + 1, filePath, category, present)

\* An Ignore that makes a new ledger whether the path has one or not.
IgnoreResults_AlwaysNew(results, filePath, category) ==
    Append(results,
           ResultsDetails(filePath, <<>>, <<>>,
                          <<Details(category, "", NilSlice, Low)>>))

\* Results after Ignore's loop and its new-ledger branch.
IgnoreResults(results, filePath, category) ==
    LET r == IgnoreResultLoop(results, 1, filePath, category, FALSE)
    IN  IF r.present
        THEN r.results
        ELSE Append(r.results,
                    ResultsDetails(filePath, <<>>, <<>>,
                                   <<Details(category, "", NilSlice, Low)>>))

Ignore(filePath, category) ==
    /\ Results' = IgnoreResults(Results, filePath, category)
    /\ Summary' = [Summary EXCEPT !.Ignores = @ + 1]
    /\ last' = [op |-> "Ignore", filePath |-> filePath, category |-> category]
    /\ ignored' = [x \in DOMAIN ignored \cup {<<filePath, category>>} |->
                      IF x = <<filePath, category>>
                      THEN Ignored(x) + 1 ELSE ignored[x]]
    /\ calls' = [calls EXCEPT !.Ignore = @ + 1]
    /\ report' = NoReport
    /\ UNCHANGED <<heap, failed, warned>>

\* ------------------------------------------------------------------ queries

HasFailures == Summary.Filesize > 0 \/ Summary.Filename > 0 \/ Summary.Filecontent > 0

HasIgnores == Summary.Ignores > 0

HasWarnings == Summary.Warnings > 0

HasDetectionMessages == HasWarnings \/ HasFailures \/ HasIgnores

Successful == ~HasFailures

\* The nil *ResultsDetails.
Nil == [nil |-> TRUE]

\* The loop of getResultDetailsForFilePath from index i on: the first ledger
\* with the file name, or nil.
RECURSIVE getResultDetailsLoop(_, _, _)
getResultDetailsLoop(results, i, fileName) ==
    IF i > Len(results) THEN Nil
    ELSE IF results[i].Filename = fileName THEN results[i]
    ELSE getResultDetailsLoop(results, i + 1, fileName)

getResultDetailsForFilePath(results, fileName) == getResultDetailsLoop(results, 1, fileName)

\* A GetFailures that returns the warnings of the ledger.
GetFailures_Warnings(results, fileName) ==
    LET r == getResultDetailsForFilePath(results, fileName)
    IN  IF r = Nil THEN <<>> ELSE r.WarningList

\* GetFailures' result: []Details{} for nil, else the ledger's FailureList.
GetFailures(results, fileName) ==
    LET r == getResultDetailsForFilePath(results, fileName)
    IN  IF r = Nil THEN <<>> ELSE r.FailureList

\* A caller asks for the failures of a path; nothing but the result changes.
GetFailuresCall(fileName) ==
    /\ last' = [op |-> "GetFailures", filePath |-> fileName,
                value |-> GetFailures(Results, fileName)]
    /\ calls' = [calls EXCEPT !.GetFailures = @ + 1]
    /\ report' = NoReport
    /\ UNCHANGED <<Results, Summary, heap, failed, warned, ignored>>

\* ------------------------------------------------------------------ texts

\* A Message is a Go string: a sequence of bytes, the UTF-8 encoding of its
\* characters. The model keeps a name for each message and Text gives its
\* bytes. The short messages are named by their literal. A generated message
\* is named by its parameters [chars |-> n, wide |-> w]: it has n
\* characters, ASCII letters, except that character number w (if w is in
\* 1..n) is an "e" with an acute accent, which takes the two bytes 195, 169.
Letter(i) == 97 + (i % 26)

\* The name of a message of 151 ASCII letters.
LongMessage == "151 letters"

\* The name of what is left of that message when it is cut for a row.
CutMessage == "151 letters, cut"

NamedText ==
    ("" :> <<>>) @@ ("m1" :> <<109, 49>>) @@ ("m2" :> <<109, 50>>) @@
    ("secret key" :> <<115, 101, 99, 114, 101, 116, 32, 107, 101, 121>>) @@
    (LongMessage :> [i \in 1..151 |-> Letter(i)]) @@
    (CutMessage :> [i \in 1..75 |-> Letter(i)] \o <<10>> \o
                   [i \in 1..72 |-> Letter(75 + i)] \o <<46, 46, 46>>)

GeneratedText(n, w) ==
    IF w \in 1..n
    THEN [i \in 1..(n + 1) |->
            IF i < w THEN Letter(i)
            ELSE IF i = w THEN 195
            ELSE IF i = w + 1 THEN 169
            ELSE Letter(i - 1)]
    ELSE [i \in 1..n |-> Letter(i)]

\* The generated messages: about 150 characters long.
RenderParams ==
    {[chars |-> n, wide |-> w] : n \in (150 - Radius)..(150 + Radius),
                                 w \in WidePositions}

RenderMessages == {ToString(r) : r \in RenderParams}

\* The bytes of the message m.
Text(m) ==
    IF m \in DOMAIN NamedText
    THEN NamedText[m]
    ELSE LET r == CHOOSE r \in RenderParams : ToString(r) = m
         IN  GeneratedText(r.chars, r.wide)

\* ------------------------------------------------------------------ rendering

\* What a call gives back: rows, or the nil-pointer panic of reading a field
\* of a nil *ResultsDetails.
Rows(data) == [panic |-> FALSE, data |-> data]

Panic == [panic |-> TRUE, data |-> <<>>]

\* severity.Severity.String()
SeverityString(sev) == CASE sev = Low -> "low" [] sev = "high" -> "high"

\* The message of a table row: over 150 bytes it is text[:75], "\n",
\* text[75:147] and "..."; len() and the slice bounds count bytes.
TruncateMessage(text) ==
    IF Len(text) > 150
    THEN SubSeq(text, 1, 75) \o <<10>> \o SubSeq(text, 76, 147) \o <<46, 46, 46>>
    ELSE text

\* The rows of the findings of list, in order: file, message, severity.
FileRows(filePath, list) ==
    [i \in 1..Len(list) |->
        <<filePath, TruncateMessage(Text(list[i].Message)),
          SeverityString(list[i].Severity)>>]

\* ReportFileFailures: the rows of the FailureList of the path's ledger.
ReportFileFailures(results, filePath) ==
    LET r == getResultDetailsForFilePath(results, filePath)
    IN  IF r = Nil THEN Panic ELSE Rows(FileRows(filePath, r.FailureList))

\* ReportFileWarnings: the rows of the WarningList of the path's ledger.
ReportFileWarnings(results, filePath) ==
    LET r == getResultDetailsForFilePath(results, filePath)
    IN  IF r = Nil THEN Panic ELSE Rows(FileRows(filePath, r.WarningList))

\* A loop body that assigns the cut message to the element of the list
\* instead of the loop's copy of it.
RenderedList_InPlace(list) ==
    [i \in 1..Len(list) |->
        IF list[i].Message = LongMessage
        THEN [list[i] EXCEPT !.Message = CutMessage]
        ELSE list[i]]

\* A list after the loop of ReportFileFailures or ReportFileWarnings went
\* over it: detail is a copy of the element, so the list is as it was.
RenderedList(list) == list

\* Results after ReportFileFailures went over the ledger of the path.
AfterFileFailures(results, filePath) ==
    [i \in 1..Len(results) |->
        IF results[i].Filename = filePath
           /\ \A j \in 1..(i - 1) : results[j].Filename # filePath
        THEN [results[i] EXCEPT !.FailureList = RenderedList(@)]
        ELSE results[i]]

\* Results after ReportFileWarnings went over the ledger of the path.
AfterFileWarnings(results, filePath) ==
    [i \in 1..Len(results) |->
        IF results[i].Filename = filePath
           /\ \A j \in 1..(i - 1) : results[j].Filename # filePath
        THEN [results[i] EXCEPT !.WarningList = RenderedList(@)]
        ELSE results[i]]

\* A caller asks for the failure rows of a path.
ReportFileFailuresCall(filePath) ==
    /\ Results' = AfterFileFailures(Results, filePath)
    /\ last' = [op |-> "ReportFileFailures", filePath |-> filePath,
                value |-> ReportFileFailures(Results, filePath)]
    /\ report' = NoReport
    /\ UNCHANGED <<Summary, heap, failed, warned, ignored, calls>>

\* A caller asks for the warning rows of a path.
ReportFileWarningsCall(filePath) ==
    /\ Results' = AfterFileWarnings(Results, filePath)
    /\ last' = [op |-> "ReportFileWarnings", filePath |-> filePath,
                value |-> ReportFileWarnings(Results, filePath)]
    /\ report' = NoReport
    /\ UNCHANGED <<Summary, heap, failed, warned, ignored, calls>>

\* ------------------------------------------------------------------ Report

\* utility.UniqueItems: the first occurrence of each item, in order.
RECURSIVE UniqueItems(_)
UniqueItems(stringSlice) ==
    IF stringSlice = <<>> THEN <<>>
    ELSE LET list == UniqueItems(SubSeq(stringSlice, 1, Len(stringSlice) - 1))
             entry == stringSlice[Len(stringSlice)]
         IN  IF \E i \in 1..Len(list) : list[i] = entry
             THEN list ELSE Append(list, entry)

\* utility.DefaultSHA256Hasher{}.CollectiveSHA256Hash([]string{filePath})
CollectiveSHA256Hash(filePath) == <<"sha256", filePath>>

\* talismanrc.BuildIgnoreConfig(mode, filePath, checksum, []string{})
BuildIgnoreConfig(filePath, checksum) ==
    [FileName |-> filePath, Checksum |-> checksum, IgnoreDetectors |-> <<>>]

\* A loop condition that looks at the failures only.
RECURSIVE ReportLoop_FailuresOnly(_, _)
ReportLoop_FailuresOnly(results, i) ==
    IF i > Len(results)
    THEN [filePaths |-> <<>>, data |-> <<>>]
    ELSE LET rest == ReportLoop_FailuresOnly(results, i + 1)
         IN  IF Len(results[i].FailureList) > 0
             THEN [filePaths |-> <<results[i].Filename>> \o rest.filePaths,
                   data |-> ReportFileFailures(results, results[i].Filename).data
                            \o rest.data]
             ELSE rest

\* Report's loop over Results from index i on: the file names of the
\* ledgers with failures or ignores, and the rows of their failures.
RECURSIVE ReportLoop(_, _)
ReportLoop(results, i) ==
    IF i > Len(results)
    THEN [filePaths |-> <<>>, data |-> <<>>]
    ELSE LET rest == ReportLoop(results, i + 1)
         IN  IF Len(results[i].FailureList) > 0 \/ Len(results[i].IgnoreList) > 0
             THEN [filePaths |-> <<results[i].Filename>> \o rest.filePaths,
                   data |-> ReportFileFailures(results, results[i].Filename).data
                            \o rest.data]
             ELSE rest

\* The lists of every ledger after the loops of the ReportFileFailures
\* calls that Report makes.
AfterReportLoop(results) ==
    [i \in 1..Len(results) |->
        IF Len(results[i].FailureList) > 0 \/ Len(results[i].IgnoreList) > 0
        THEN AfterFileFailures(results, results[i].Filename)[i]
        ELSE results[i]]

\* A Report that starts the workflow whenever a file was collected.
StartsWorkflow_AnyFile(filePaths) == Len(filePaths) > 0

\* Report's condition for the banner, the table and the workflow.
StartsWorkflow(filePaths) == HasFailures

\* Report(promptContext) up to its call of suggestTalismanRC, or up to its
\* return when there are no failures. The prompt context says whether the
\* run is interactive; GOOS is the platform the program was built for.
Report(Interactive, GOOS) ==
    /\ report.pc \in {"Idle", "Returned", "Done"}
    /\ LET loop == ReportLoop(Results, 1)
           filePaths == UniqueItems(loop.filePaths)
           starts == StartsWorkflow(filePaths)
       IN  report' = [pc |-> IF starts THEN "Collecting" ELSE "Returned",
                      Interactive |-> Interactive, GOOS |-> GOOS,
                      banner |-> starts,
                      table |-> IF starts THEN loop.data ELSE <<>>,
                      filePaths |-> filePaths,
                      entriesToAdd |-> <<>>, asked |-> <<>>, confirmed |-> <<>>,
                      AddIgnores |-> <<>>, gitAdd |-> <<>>, printed |-> <<>>,
                      answers |-> <<>>, logged |-> <<>>]
    /\ Results' = AfterReportLoop(Results)
    /\ last' = [op |-> "Report"]
    /\ calls' = [calls EXCEPT !.Report = @ + 1]
    /\ UNCHANGED <<Summary, heap, failed, warned, ignored>>

\* A condition that forgets the platform.
Interactively_AnyPlatform(Interactive, GOOS) == Interactive

\* promptContext.Interactive && runtime.GOOS != "windows"
Interactively(Interactive, GOOS) == Interactive /\ GOOS # "windows"

\* suggestTalismanRC up to its branch: one entry per file path, in order.
suggestTalismanRC ==
    /\ report.pc = "Collecting"
    /\ LET entriesToAdd ==
               [i \in 1..Len(report.filePaths) |->
                   BuildIgnoreConfig(report.filePaths[i],
                                     CollectiveSHA256Hash(report.filePaths[i]))]
       IN  report' = [report EXCEPT
                        !.entriesToAdd = entriesToAdd,
                        !.pc = IF Interactively(report.Interactive, report.GOOS)
                               THEN IF Len(entriesToAdd) = 0
                                    THEN "Persisting" ELSE "Confirming"
                               ELSE "Printing"]
    /\ UNCHANGED <<Results, Summary, heap, last, failed, warned, ignored, calls>>

\* A confirmation that keeps every entry, whatever the answer.
Confirmed_Always(confirmed, config, answer) == Append(confirmed, config)

\* getUserConfirmation's loop body: the entry is kept if confirm said yes.
Confirmed(confirmed, config, answer) ==
    IF answer THEN Append(confirmed, config) ELSE confirmed

\* A confirm that gives up when yaml.Marshal fails: the error is logged,
\* nothing is asked and the workflow ends.
confirm_FatalMarshalError(marshalError, answer) ==
    /\ report.pc = "Confirming"
    /\ LET config == report.entriesToAdd[Len(report.asked) + 1]
       IN  report' =
             IF marshalError
             THEN [report EXCEPT
                     !.logged = Append(@, <<"yaml.Marshal", config.FileName>>),
                     !.pc = "Done"]
             ELSE [report EXCEPT
                     !.asked = Append(@, config.FileName),
                     !.answers = Append(@, answer),
                     !.confirmed = Confirmed(@, config, answer),
                     !.pc = IF Len(report.asked) + 1 = Len(report.entriesToAdd)
                            THEN "Persisting" ELSE "Confirming"]
    /\ UNCHANGED <<Results, Summary, heap, last, failed, warned, ignored, calls>>

\* One iteration of getUserConfirmation's loop: confirm marshals the next
\* entry (an error of yaml.Marshal is logged), asks the prompt about it and
\* gets its answer.
confirm(marshalError, answer) ==
    /\ report.pc = "Confirming"
    /\ LET config == report.entriesToAdd[Len(report.asked) + 1]
       IN  report' = [report EXCEPT
                        !.asked = Append(@, config.FileName),
                        !.answers = Append(@, answer),
                        !.logged = IF marshalError
                                   THEN Append(@, <<"yaml.Marshal", config.FileName>>)
                                   ELSE @,
                        !.confirmed = Confirmed(@, config, answer),
                        !.pc = IF Len(report.asked) + 1 = Len(report.entriesToAdd)
                               THEN "Persisting" ELSE "Confirming"]
    /\ UNCHANGED <<Results, Summary, heap, last, failed, warned, ignored, calls>>

\* The rest of suggestTalismanRC's interactive branch: AddIgnores gets the
\* confirmed entries, then "git add .talismanrc" runs; its error is logged.
Persist(gitError) ==
    /\ report.pc = "Persisting"
    /\ report' = [report EXCEPT
                    !.AddIgnores = Append(@, report.confirmed),
                    !.gitAdd = Append(@, IF gitError THEN "error" ELSE "ok"),
                    !.logged = IF gitError THEN Append(@, <<"git add">>) ELSE @,
                    !.pc = "Done"]
    /\ UNCHANGED <<Results, Summary, heap, last, failed, warned, ignored, calls>>

\* suggestTalismanRC's other branch: printTalismanIgnoreSuggestion gets
\* all the entries.
printTalismanIgnoreSuggestion ==
    /\ report.pc = "Printing"
    /\ report' = [report EXCEPT !.printed = report.entriesToAdd, !.pc = "Done"]
    /\ UNCHANGED <<Results, Summary, heap, last, failed, warned, ignored, calls>>

\* ReportWarnings: the rows of the warnings of every ledger that has some;
\* the banner and the table are printed, and the hint returned, when the
\* Warnings counter is positive.
RECURSIVE ReportWarningsLoop(_, _)
ReportWarningsLoop(results, i) ==
    IF i > Len(results) THEN <<>>
    ELSE IF Len(results[i].WarningList) > 0
    THEN ReportFileWarnings(results, results[i].Filename).data
         \o ReportWarningsLoop(results, i + 1)
    ELSE ReportWarningsLoop(results, i + 1)

AfterReportWarningsLoop(results) ==
    [i \in 1..Len(results) |->
        IF Len(results[i].WarningList) > 0
        THEN AfterFileWarnings(results, results[i].Filename)[i]
        ELSE results[i]]

ReportWarnings ==
    /\ report.pc \in {"Idle", "Returned", "Done"}
    /\ Results' = AfterReportWarningsLoop(Results)
    /\ last' = [op |-> "ReportWarnings",
                banner |-> Summary.Warnings > 0,
                table |-> IF Summary.Warnings > 0
                          THEN ReportWarningsLoop(Results, 1) ELSE <<>>,
                value |-> IF Summary.Warnings > 0 THEN "Please review" ELSE ""]
    /\ calls' = [calls EXCEPT !.Report = @ + 1]
    /\ report' = NoReport
    /\ UNCHANGED <<Summary, heap, failed, warned, ignored>>

\* ------------------------------------------------------------------ spec

\* The run so far is about one file, one category and one severity.
DeepRun ==
    /\ \A k \in DOMAIN failed \cup DOMAIN warned :
          /\ k[1] \in DeepPaths /\ k[2] \in DeepCategories
          /\ {Hist(failed, k).first, Hist(warned, k).first}
                \subseteq DeepSeverities \cup {"none"}
    /\ \A k \in DOMAIN ignored : k[1] \in DeepPaths /\ k[2] \in DeepCategories

FailStep ==
    /\ NumCalls < MaxCalls
    /\ \E p \in Paths, c \in Categories, m \in WideMessages, s \in WideSlices,
          v \in Severities : Fail(p, c, m, s, v)

WarnStep ==
    /\ NumCalls < MaxCalls
    /\ \E p \in Paths, c \in Categories, m \in WideMessages, s \in WideSlices,
          v \in Severities : Warn(p, c, m, s, v)

IgnoreStep ==
    /\ NumCalls < MaxCalls
    /\ \E p \in Paths, c \in Categories : Ignore(p, c)

GetFailuresStep ==
    /\ NumCalls < MaxCalls
    /\ \E p \in Paths \cup {UnknownPath} : GetFailuresCall(p)

DeepFailStep ==
    /\ NumCalls < MaxDeepCalls /\ DeepRun
    /\ \E p \in DeepPaths, c \in DeepCategories, m \in Messages, s \in CallerSlices,
          v \in DeepSeverities : Fail(p, c, m, s, v)

DeepWarnStep ==
    /\ NumCalls < MaxDeepCalls /\ DeepRun
    /\ \E p \in DeepPaths, c \in DeepCategories, m \in Messages, s \in CallerSlices,
          v \in DeepSeverities : Warn(p, c, m, s, v)

DeepIgnoreStep ==
    /\ NumCalls < MaxDeepCalls /\ DeepRun
    /\ \E p \in DeepPaths, c \in DeepCategories : Ignore(p, c)

DeepGetFailuresStep ==
    /\ NumCalls < MaxDeepCalls /\ DeepRun
    /\ \E p \in DeepPaths : GetFailuresCall(p)

Next ==
    \/ FailStep
    \/ WarnStep
    \/ IgnoreStep
    \/ GetFailuresStep
    \/ DeepFailStep
    \/ DeepWarnStep
    \/ DeepIgnoreStep
    \/ DeepGetFailuresStep

Spec == Init /\ [][Next]_vars

\* The rendering of one finding, for messages of about 150 characters: the
\* run starts after Fail and Warn recorded the same message for one file,
\* and the caller asks for the rows of the file.
InitRender ==
    \E m \in RenderMessages :
        LET f == FailResults(CallerHeap, <<>>, "a.pem", "filecontent", m, NilSlice, Low)
            w == WarnResults(f.heap, f.results, "a.pem", "filecontent", m, NilSlice, Low)
        IN  /\ Results = w.results
            /\ heap = w.heap
            /\ Summary = [Filecontent |-> 1, Filesize |-> 0, Filename |-> 0,
                          Warnings |-> 1, Ignores |-> 0]
            /\ last = [op |-> "Warn", filePath |-> "a.pem",
                       category |-> "filecontent", message |-> m,
                       commits |-> NilSlice, severity |-> Low]
            /\ failed = Record([k \in {} |-> NoCalls],
                               <<"a.pem", "filecontent", m>>, <<>>, Low)
            /\ warned = Record([k \in {} |-> NoCalls],
                               <<"a.pem", "filecontent", m>>, <<>>, Low)
            /\ ignored = [k \in {} |-> 0]
            /\ calls = [Fail |-> 1, Warn |-> 1, Ignore |-> 0, GetFailures |-> 0,
                        Report |-> 0]
            /\ report = NoReport

ReportFileFailuresStep ==
    \E p \in {"a.pem", UnknownPath} : ReportFileFailuresCall(p)

ReportFileWarningsStep ==
    \E p \in {"a.pem", UnknownPath} : ReportFileWarningsCall(p)

NextRender ==
    \/ ReportFileFailuresStep
    \/ ReportFileWarningsStep

SpecRender == InitRender /\ [][NextRender]_vars

\* The scan and its report: up to MaxScanCalls findings are recorded, and up
\* to MaxReports calls of Report or ReportWarnings are made between them or
\* after them. Report returns before the next call starts.
NoReportRunning == report.pc \in {"Idle", "Returned", "Done"}

ScanFailStep ==
    /\ NumCalls < MaxScanCalls /\ NoReportRunning
    /\ \E p \in Paths, f \in ScanFailures : Fail(p, f[1], f[2], NilSlice, f[3])

ScanWarnStep ==
    /\ NumCalls < MaxScanCalls /\ NoReportRunning
    /\ \E p \in Paths, f \in ScanWarnings : Warn(p, f[1], f[2], NilSlice, f[3])

ScanIgnoreStep ==
    /\ NumCalls < MaxScanCalls /\ NoReportRunning
    /\ \E p \in Paths, c \in ScanIgnores : Ignore(p, c)

ReportStep ==
    /\ calls.Report < MaxReports
    /\ \E Interactive \in BOOLEAN, GOOS \in Platforms : Report(Interactive, GOOS)

ReportWarningsStep ==
    /\ calls.Report < MaxReports
    /\ ReportWarnings

confirmStep == \E marshalError \in BOOLEAN, answer \in BOOLEAN : confirm(marshalError, answer)

PersistStep == \E gitError \in BOOLEAN : Persist(gitError)

NextReport ==
    \/ ScanFailStep
    \/ ScanWarnStep
    \/ ScanIgnoreStep
    \/ ReportStep
    \/ ReportWarningsStep
    \/ suggestTalismanRC
    \/ confirmStep
    \/ PersistStep
    \/ printTalismanIgnoreSuggestion

SpecReport == Init /\ [][NextReport]_vars

\* ------------------------------------------------------------------ views

\* A finding as a reader sees it: its commits are the elements of its slice.
EntryView(h, d) ==
    [Category |-> d.Category, Message |-> d.Message,
     Commits |-> Content(h, d.Commits), Severity |-> d.Severity]

ListView(h, list) == [i \in 1..Len(list) |-> EntryView(h, list[i])]

\* The indices of the ledgers of a path.
LedgersOf(results, p) == {j \in 1..Len(results) : results[j].Filename = p}

\* The indices of the findings of a list with a category and a message.
EntriesOf(list, c, m) ==
    {i \in 1..Len(list) : list[i].Category = c /\ list[i].Message = m}

\* The paths some Fail, Warn or Ignore call named.
PathsCalled == {k[1] : k \in DOMAIN failed \cup DOMAIN warned \cup DOMAIN ignored}

\* ------------------------------------------------------------------ C1

\* C1: for every (path, category, message) some Fail call used, the ledger of
\* the path holds exactly one failure finding with that category and message,
\* and its commits are the concatenation of the commits arguments of all those
\* Fail calls, in call order, whatever other calls were made in between.
C1_FailConcatenatesCommits ==
    \A k \in DOMAIN failed :
            /\ Cardinality(LedgersOf(Results, k[1])) = 1
            /\ \A j \in LedgersOf(Results, k[1]) :
                 LET list == Results[j].FailureList
                 IN  /\ Cardinality(EntriesOf(list, k[2], k[3])) = 1
                     /\ \A i \in EntriesOf(list, k[2], k[3]) :
                          Content(heap, list[i].Commits) = failed[k].commits

\* ------------------------------------------------------------------ C2

\* C2: HasFailures() is true exactly when some earlier Fail call used one of
\* the three reserved categories (Fail calls with another category, Warn and
\* Ignore calls never make it true), and Successful() is its negation.
C2_HasFailuresIffReservedFail ==
    /\ HasFailures <=> \E k \in DOMAIN failed : k[2] \in ReservedCategories
    /\ Successful <=> ~HasFailures

\* Two Fail calls were made, one with a category that is not counted and one
\* with a reserved category.
C2_Witness ==
    /\ \E k \in DOMAIN failed : k[2] \notin ReservedCategories
    /\ \E k \in DOMAIN failed : k[2] \in ReservedCategories
    /\ HasFailures

\* ------------------------------------------------------------------ C3

\* C3: Results holds exactly one ledger for every path some Fail, Warn or
\* Ignore call named and none for any other path: a call for a path that has
\* a ledger adds none, a call for a new path adds exactly one.
C3_OneLedgerPerPath ==
    /\ \A i, j \in 1..Len(Results) : Results[i].Filename = Results[j].Filename => i = j
    /\ {Results[j].Filename : j \in 1..Len(Results)} = PathsCalled
    /\ Len(Results) = Cardinality(PathsCalled)

\* Fail, Warn and Ignore were all called for one path, which has one ledger.
C3_Witness ==
    /\ Len(Results) = 1
    /\ calls.Fail > 0 /\ calls.Warn > 0 /\ calls.Ignore > 0

\* ------------------------------------------------------------------ C4

\* No two findings of the list share (category, message).
NoDuplicates(list) ==
    \A a, b \in 1..Len(list) :
        (list[a].Category = list[b].Category /\ list[a].Message = list[b].Message)
            => a = b

\* C4: in every ledger no two FailureList entries share (category, message),
\* no two WarningList entries share (category, message), no two IgnoreList
\* entries share a category, and every IgnoreList entry has an empty message,
\* no commits and Low severity.
C4_ListsHaveNoDuplicates ==
    \A j \in 1..Len(Results) :
        /\ NoDuplicates(Results[j].FailureList)
        /\ NoDuplicates(Results[j].WarningList)
        /\ \A a, b \in 1..Len(Results[j].IgnoreList) :
             Results[j].IgnoreList[a].Category = Results[j].IgnoreList[b].Category
                => a = b
        /\ \A a \in 1..Len(Results[j].IgnoreList) :
             /\ Results[j].IgnoreList[a].Message = ""
             /\ Content(heap, Results[j].IgnoreList[a].Commits) = <<>>
             /\ Results[j].IgnoreList[a].Severity = Low

\* A ledger holds two failures and one ignore after more calls than that:
\* some call met a finding that was already there.
C4_Witness ==
    \E j \in 1..Len(Results) :
        /\ Len(Results[j].FailureList) = 2
        /\ Len(Results[j].IgnoreList) = 1
        /\ calls.Fail + calls.Ignore > 3

\* ------------------------------------------------------------------ C5

\* C5: Summary.Types.Ignores is the number of Ignore calls made, and the
\* IgnoreList of a path's ledger holds exactly one entry for every category
\* that path was ignored with, however many times, and no other entry.
C5_IgnoreCountsCalls ==
    /\ Summary.Ignores = calls.Ignore
    /\ \A k \in DOMAIN ignored :
         \E j \in 1..Len(Results) :
            /\ Results[j].Filename = k[1]
            /\ Cardinality({a \in 1..Len(Results[j].IgnoreList) :
                              Results[j].IgnoreList[a].Category = k[2]}) = 1
    /\ \A j \in 1..Len(Results) : \A a \in 1..Len(Results[j].IgnoreList) :
         <<Results[j].Filename, Results[j].IgnoreList[a].Category>> \in DOMAIN ignored

\* Ignore was called twice with the same path and category: the counter is 2
\* and the ledger holds one entry.
C5_Witness ==
    \E k \in DOMAIN ignored :
        /\ ignored[k] = 2
        /\ Summary.Ignores = 2
        /\ \E j \in 1..Len(Results) :
             Results[j].Filename = k[1] /\ Len(Results[j].IgnoreList) = 1

\* ------------------------------------------------------------------ C6

\* 1 when the category of the call is the counter's own, else 0.
Counted(category, own) == IF category = own THEN 1 ELSE 0

\* C6: every Fail call raises by exactly 1 the typed counter of its category
\* (Filecontent, Filesize, Filename) and leaves the other counters alone,
\* whether its finding was appended or merged; with any other category no
\* counter changes; in both cases the path's FailureList holds the finding
\* after the call.
C6_FailCountsByCategory ==
    [][last'.op = "Fail" =>
        /\ Summary'.Filecontent = Summary.Filecontent
                                    + Counted(last'.category, "filecontent")
        /\ Summary'.Filesize = Summary.Filesize + Counted(last'.category, "filesize")
        /\ Summary'.Filename = Summary.Filename + Counted(last'.category, "filename")
        /\ Summary'.Warnings = Summary.Warnings
        /\ Summary'.Ignores = Summary.Ignores
        /\ \E j \in LedgersOf(Results', last'.filePath) :
             EntriesOf(Results'[j].FailureList, last'.category, last'.message) # {}
      ]_vars

\* The last Fail call merged into a finding that was there (its key was used
\* before), and the counter of its reserved category counts both calls.
C6_Witness ==
    /\ last.op = "Fail"
    /\ last.category = "filesize"
    /\ Hist(failed, <<last.filePath, last.category, last.message>>).calls = 2
    /\ Summary.Filesize = 2

\* ------------------------------------------------------------------ C7

\* C7: a Warn call whose (category, message) is in the path's WarningList
\* appends its commits to that entry and adds no entry; otherwise it appends
\* one new finding made of its arguments (to a new ledger when the path has
\* none); every Warn call raises Summary.Types.Warnings by exactly 1, so the
\* counter is the number of Warn calls.
C7_WarnMergesAndCounts ==
    /\ [](Summary.Warnings = calls.Warn)
    /\ [][last'.op = "Warn" =>
            LET p == last'.filePath
                c == last'.category
                m == last'.message
                arg == Content(heap, last'.commits)
                new == [Category |-> c, Message |-> m, Commits |-> arg,
                        Severity |-> last'.severity]
            IN  /\ Summary'.Warnings = Summary.Warnings + 1
                /\ IF LedgersOf(Results, p) = {}
                   THEN /\ Len(Results') = Len(Results) + 1
                        /\ Results'[Len(Results')].Filename = p
                        /\ ListView(heap', Results'[Len(Results')].WarningList) = <<new>>
                   ELSE \A j \in LedgersOf(Results, p) :
                          LET old == Results[j].WarningList
                              now == Results'[j].WarningList
                          IN  IF EntriesOf(old, c, m) # {}
                              THEN /\ Len(now) = Len(old)
                                   /\ \A i \in EntriesOf(old, c, m) :
                                        EntryView(heap', now[i]) =
                                          [EntryView(heap, old[i]) EXCEPT
                                             !.Commits = @ \o arg]
                              ELSE /\ Len(now) = Len(old) + 1
                                   /\ EntryView(heap', now[Len(now)]) = new
       ]_vars

\* The last Warn call brought commits and met a finding that was there.
C7_Witness ==
    /\ last.op = "Warn"
    /\ last.commits.len > 0
    /\ Hist(warned, <<last.filePath, last.category, last.message>>).calls = 3
    /\ Summary.Warnings = 3

\* ------------------------------------------------------------------ C8

\* C8: a stored failure or warning keeps the message it was created with and
\* the severity of the first call with its (path, category, message); later
\* calls with another severity only make its commit sequence longer (its
\* length is the number of commits all the calls brought).
C8_FirstSeverityKept ==
    \A j \in 1..Len(Results) :
        /\ \A i \in 1..Len(Results[j].FailureList) :
             LET d == Results[j].FailureList[i]
                 h == Hist(failed, <<Results[j].Filename, d.Category, d.Message>>)
             IN  d.Severity = h.first /\ d.Commits.len = Len(h.commits)
        /\ \A i \in 1..Len(Results[j].WarningList) :
             LET d == Results[j].WarningList[i]
                 h == Hist(warned, <<Results[j].Filename, d.Category, d.Message>>)
             IN  d.Severity = h.first /\ d.Commits.len = Len(h.commits)

\* The last call merged into a finding that has another severity than the
\* call's own.
C8_Witness ==
    /\ last.op \in {"Fail", "Warn"}
    /\ \E j \in LedgersOf(Results, last.filePath) :
         LET list == IF last.op = "Fail" THEN Results[j].FailureList
                     ELSE Results[j].WarningList
         IN  \E i \in EntriesOf(list, last.category, last.message) :
                /\ list[i].Severity # last.severity
                /\ list[i].Commits.len = 2

\* ------------------------------------------------------------------ C9

\* C9: a Warn or Ignore call leaves the three typed failure counters and
\* every ledger's FailureList as they were, so HasFailures() and Successful()
\* keep their values; a run of Warn and Ignore calls only is Successful().
C9_WarnIgnoreKeepFailures ==
    /\ [](calls.Fail = 0 => Successful)
    /\ [][last'.op \in {"Warn", "Ignore"} =>
            /\ Summary'.Filecontent = Summary.Filecontent
            /\ Summary'.Filesize = Summary.Filesize
            /\ Summary'.Filename = Summary.Filename
            /\ HasFailures' = HasFailures
            /\ Successful' = Successful
            /\ \A j \in 1..Len(Results) :
                 ListView(heap', Results'[j].FailureList)
                    = ListView(heap, Results[j].FailureList)
       ]_vars

\* ------------------------------------------------------------------ C10

\* C10: GetFailures(path) returns the empty sequence for a path without a
\* ledger and the FailureList of the path's ledger otherwise (empty when the
\* path was only warned or ignored); it returns in every state.
C10_GetFailuresTotal ==
    last.op = "GetFailures" =>
        /\ LedgersOf(Results, last.filePath) = {} => last.value = <<>>
        /\ \A j \in LedgersOf(Results, last.filePath) :
             last.value = Results[j].FailureList

\* GetFailures was asked about a path whose ledger holds a warning and no
\* failure.
C10_Witness ==
    /\ last.op = "GetFailures"
    /\ \E j \in LedgersOf(Results, last.filePath) :
         Results[j].FailureList = <<>> /\ Results[j].WarningList # <<>>

\* ------------------------------------------------------------------ C11

\* The run recorded one failure ("a.pem", "filecontent", "secret key") and
\* one ignore ("b.txt", "filesize"), and nothing else.
EndToEndRun ==
    /\ DOMAIN failed = {<<"a.pem", "filecontent", "secret key">>}
    /\ failed[<<"a.pem", "filecontent", "secret key">>].calls = 1
    /\ DOMAIN warned = {}
    /\ DOMAIN ignored = {<<"b.txt", "filesize">>}
    /\ ignored[<<"b.txt", "filesize">>] = 1

\* Report has built the candidates of the workflow it started.
Collected == report.pc \in {"Confirming", "Persisting", "Printing", "Done"}

\* The file names of the candidates, in order.
Candidates == [i \in 1..Len(report.entriesToAdd) |-> report.entriesToAdd[i].FileName]

\* The file names of the ledgers, in creation order.
Filenames(results) == [i \in 1..Len(results) |-> results[i].Filename]

FilesWithFindings ==
    Filenames(SelectSeq(Results, LAMBDA l : l.FailureList # <<>> \/ l.IgnoreList # <<>>))

\* Nothing of the workflow has happened in the Report call.
NothingSuggested ==
    /\ ~report.banner /\ report.table = <<>>
    /\ report.entriesToAdd = <<>> /\ report.asked = <<>>
    /\ report.AddIgnores = <<>> /\ report.gitAdd = <<>> /\ report.printed = <<>>

\* C12: a Report call starts the workflow if and only if HasFailures() is
\* true; the workflow's candidates are one per distinct file path whose
\* ledger has a failure or an ignore, in ledger creation order; a Report
\* call without failures prints no banner and no table, builds no candidate,
\* asks nothing and persists nothing, and no workflow step follows it.
C12_WorkflowIffHasFailures ==
    /\ [](report.pc # "Idle" =>
            /\ (report.pc # "Returned") <=> HasFailures
            /\ Collected =>
                  /\ Candidates = FilesWithFindings
                  /\ \A i, j \in 1..Len(Candidates) :
                        Candidates[i] = Candidates[j] => i = j
            /\ report.pc = "Returned" => NothingSuggested)
    /\ [][report.pc = "Returned" =>
             report'.pc \in {"Idle", "Returned", "Collecting"}]_vars

C12_Witness ==
    /\ report.pc = "Printing" /\ Len(Results) = 2 /\ Candidates = <<"b.txt">>
    /\ Results[1].WarningList # <<>>

\* ------------------------------------------------------------------ C13

\* The steps the workflow of one Report call may take.
WorkflowOrder ==
    {<<"Collecting", "Confirming">>, <<"Collecting", "Persisting">>,
     <<"Collecting", "Printing">>, <<"Confirming", "Confirming">>,
     <<"Confirming", "Persisting">>, <<"Persisting", "Done">>,
     <<"Printing", "Done">>}

\* A Report call has started its workflow.
InWorkflow == report.pc \in {"Collecting", "Confirming", "Persisting", "Printing", "Done"}

\* C13: the workflow goes Collecting, then Confirming (if at all), then
\* Persisting or Printing, then Done. It is in Confirming or Persisting only
\* when the context is interactive and the platform is not windows, and
\* then ends with one AddIgnores followed by one staging of .talismanrc.
\* Otherwise it goes from Collecting to Printing, prints all candidates and
\* never asks, never calls AddIgnores and never stages.
C13_WorkflowStates ==
    /\ [][InWorkflow /\ report' # report /\ report.pc # "Done" =>
             <<report.pc, report'.pc>> \in WorkflowOrder]_vars
    /\ [](InWorkflow =>
            IF report.Interactive /\ report.GOOS # "windows"
            THEN /\ report.pc # "Printing"
                 /\ report.printed = <<>>
                 /\ report.pc = "Done" =>
                       Len(report.AddIgnores) = 1 /\ Len(report.gitAdd) = 1
            ELSE /\ report.pc \in {"Collecting", "Printing", "Done"}
                 /\ report.asked = <<>>
                 /\ report.AddIgnores = <<>>
                 /\ report.gitAdd = <<>>
                 /\ report.pc = "Done" =>
                       /\ report.printed = report.entriesToAdd
                       /\ Candidates = FilesWithFindings)

C13_Witness ==
    /\ report.pc = "Done" /\ report.Interactive /\ report.GOOS = "windows"
    /\ Len(report.printed) = 2

\* ------------------------------------------------------------------ C14

\* The candidates the prompt said yes to, in candidate order.
RECURSIVE Accepted(_)
Accepted(n) ==
    IF n = 0 THEN <<>>
    ELSE IF report.answers[n]
    THEN Append(Accepted(n - 1), report.entriesToAdd[n])
    ELSE Accepted(n - 1)

\* C14: the prompt is asked about each candidate once, in candidate order,
\* one candidate per step and never the same again; AddIgnores is called
\* only after every candidate was asked, and gets exactly the candidates the
\* prompt said yes to, in their original order.
C14_ConfirmationIsLinear ==
    /\ [](InWorkflow =>
            /\ Len(report.asked) <= Len(Candidates)
            /\ report.asked = SubSeq(Candidates, 1, Len(report.asked))
            /\ Len(report.answers) = Len(report.asked)
            /\ report.AddIgnores # <<>> =>
                  /\ report.asked = Candidates
                  /\ report.AddIgnores = <<Accepted(Len(report.answers))>>)
    /\ [][InWorkflow /\ report.pc # "Done" /\ report'.asked # report.asked =>
             /\ report.AddIgnores = <<>> /\ report'.AddIgnores = <<>>
             /\ report'.asked =
                    Append(report.asked, Candidates[Len(report.asked) + 1])]_vars

C14_Witness ==
    /\ report.pc = "Done" /\ report.answers = <<FALSE, TRUE>>
    /\ Len(report.AddIgnores[1]) = 1

\* ------------------------------------------------------------------ C15

\* One row per finding of the failures and the ignores of every ledger that
\* has some, from ledger i on.
RECURSIVE RowsOfFailuresAndIgnores(_)
RowsOfFailuresAndIgnores(i) ==
    IF i > Len(Results) THEN <<>>
    ELSE FileRows(Results[i].Filename, Results[i].FailureList \o Results[i].IgnoreList)
         \o RowsOfFailuresAndIgnores(i + 1)

\* C15: when HasFailures() is true the table Report prints has, for every
\* ledger with failures or ignores, in ledger creation order, one row
\* (path, message, severity-text) per finding of the ledger's failures and
\* ignores combined, in insertion order; a file with only ignores has rows.
C15_TableHasFailuresAndIgnores ==
    InWorkflow => report.table = RowsOfFailuresAndIgnores(1)

\* ------------------------------------------------------------------ C16

\* The characters of a text are its bytes that are not UTF-8 continuation
\* bytes (128..191), each with the continuation bytes that follow it.
IsContinuation(b) == b \in 128..191

CharLen(text) == Cardinality({i \in 1..Len(text) : ~IsContinuation(text[i])})

\* The number of the character the byte i of text belongs to.
CharOf(text, i) == Cardinality({j \in 1..i : ~IsContinuation(text[j])})

\* The characters from + 1 .. to of text (Go's text[from:to], counted in
\* characters): the bytes of these characters, which are next to each other.
CharSlice(text, from, to) ==
    LET bytes == {i \in 1..Len(text) : CharOf(text, i) \in (from + 1)..to}
    IN  IF bytes = {} THEN <<>>
        ELSE SubSeq(text, CHOOSE i \in bytes : \A j \in bytes : i <= j,
                          CHOOSE i \in bytes : \A j \in bytes : i >= j)

\* The rows a ReportFileFailures or ReportFileWarnings call just returned.
RowsReturned ==
    IF last.op \in {"ReportFileFailures", "ReportFileWarnings"}
    THEN last.value.data ELSE <<>>

\* The findings the rows returned were made from.
ListRendered ==
    LET r == getResultDetailsForFilePath(Results, last.filePath)
    IN  IF last.op = "ReportFileFailures" THEN r.FailureList ELSE r.WarningList

\* C16: in every row ReportFileFailures or ReportFileWarnings returns, a
\* message of more than 150 characters is rendered as its first 75
\* characters, a line break, its characters 75 up to (not including) 147 and
\* "...", 151 characters in all, and a message of 150 characters or fewer is
\* rendered as it is.
C16_TruncatesAt150Characters ==
    \A i \in 1..Len(RowsReturned) :
        LET text == Text(ListRendered[i].Message)
            cell == RowsReturned[i][2]
        IN  IF CharLen(text) > 150
            THEN /\ cell = CharSlice(text, 0, 75) \o <<10>> \o CharSlice(text, 75, 147)
                            \o <<46, 46, 46>>
                 /\ CharLen(cell) = 151
            ELSE cell = text

\* ------------------------------------------------------------------ C17

\* A step of the workflow.
WorkflowStep ==
    \/ suggestTalismanRC
    \/ confirmStep
    \/ PersistStep
    \/ printTalismanIgnoreSuggestion

IsPrefix(s, t) == Len(s) <= Len(t) /\ SubSeq(t, 1, Len(s)) = s

\* The list old (read in heap h) is a prefix of the list new (read in heap
\* g) as to category, message and severity, and the commits of each of its
\* findings are a prefix of what they are in new.
ListGrows(h, old, g, new) ==
    /\ Len(old) <= Len(new)
    /\ \A i \in 1..Len(old) :
          /\ new[i].Category = old[i].Category
          /\ new[i].Message = old[i].Message
          /\ new[i].Severity = old[i].Severity
          /\ IsPrefix(Content(h, old[i].Commits), Content(g, new[i].Commits))

\* C18: across every Fail, Warn and Ignore call the run state only grows:
\* the ledgers before the call are a prefix of the ledgers after it, each
\* list of each ledger is a prefix of what it is after the call, the
\* commits of each finding are a prefix of what they are after the call,
\* and no counter goes down.
C18_AppendOnly ==
    [][last'.op \in {"Fail", "Warn", "Ignore"} =>
         /\ Len(Results) <= Len(Results')
         /\ \A j \in 1..Len(Results) :
               /\ Results'[j].Filename = Results[j].Filename
               /\ ListGrows(heap, Results[j].FailureList, heap', Results'[j].FailureList)
               /\ ListGrows(heap, Results[j].WarningList, heap', Results'[j].WarningList)
               /\ ListGrows(heap, Results[j].IgnoreList, heap', Results'[j].IgnoreList)
         /\ Summary'.Filecontent >= Summary.Filecontent
         /\ Summary'.Filesize >= Summary.Filesize
         /\ Summary'.Filename >= Summary.Filename
         /\ Summary'.Warnings >= Summary.Warnings
         /\ Summary'.Ignores >= Summary.Ignores]_vars

\* ------------------------------------------------------------------ C19

\* The step is no Fail, Warn or Ignore call.
NothingRecorded ==
    calls'.Fail = calls.Fail /\ calls'.Warn = calls.Warn /\ calls'.Ignore = calls.Ignore

\* C19: ReportWarnings, Report and every step of the workflow leave the run
\* state as it is: the ledgers, their findings (a message of more than 150
\* bytes is cut in the row only) and the five counters.
C19_ReportIsReadOnly ==
    [][NothingRecorded => UNCHANGED <<Results, Summary, heap>>]_vars

C19_Witness ==
    /\ report.pc = "Done"
    /\ \E i \in 1..Len(report.table) :
          report.table[i][2] = Text(CutMessage) /\ Text(CutMessage) # Text(LongMessage)
    /\ \E j \in 1..Len(Results) : \E k \in 1..Len(Results[j].FailureList) :
          Results[j].FailureList[k].Message = LongMessage

\* ------------------------------------------------------------------ C20

\* The number of findings with category c in the FailureLists of the first
\* j ledgers.
RECURSIVE StoredFailures(_, _)
StoredFailures(c, j) ==
    IF j = 0 THEN 0
    ELSE Cardinality({i \in 1..Len(Results[j].FailureList) :
                         Results[j].FailureList[i].Category = c})
         + StoredFailures(c, j - 1)

\* The number of findings in the WarningLists of the first j ledgers.
RECURSIVE StoredWarnings(_)
StoredWarnings(j) ==
    IF j = 0 THEN 0 ELSE Len(Results[j].WarningList) + StoredWarnings(j - 1)

\* The number of findings in the IgnoreLists of the first j ledgers.
RECURSIVE StoredIgnores(_)
StoredIgnores(j) ==
    IF j = 0 THEN 0 ELSE Len(Results[j].IgnoreList) + StoredIgnores(j - 1)

\* The counter n is at least the number of stored findings it sums up, and
\* is zero exactly when there is none.
Covers(n, stored) == n >= stored /\ (n = 0 <=> stored = 0)

\* C20: every counter is at least the number of stored findings it sums up
\* (Warnings: the warnings of all ledgers; Ignores: the ignores of all
\* ledgers; each typed counter: the failures with its category), and is
\* zero exactly when there is no such finding; so Successful() is true
\* exactly when no ledger stores a failure with a reserved category.
C20_CountersCoverStoredFindings ==
    /\ Covers(Summary.Warnings, StoredWarnings(Len(Results)))
    /\ Covers(Summary.Ignores, StoredIgnores(Len(Results)))
    /\ Covers(Summary.Filecontent, StoredFailures("filecontent", Len(Results)))
    /\ Covers(Summary.Filesize, StoredFailures("filesize", Len(Results)))
    /\ Covers(Summary.Filename, StoredFailures("filename", Len(Results)))
    /\ Successful <=>
          \A j \in 1..Len(Results) : \A i \in 1..Len(Results[j].FailureList) :
              Results[j].FailureList[i].Category \notin ReservedCategories

C20_Witness ==
    /\ Summary.Filecontent = 2 /\ StoredFailures("filecontent", Len(Results)) = 1
    /\ Summary.Ignores = 2 /\ StoredIgnores(Len(Results)) = 1

====
